---------------------------- MODULE Spec2Model ----------------------------
(***************************************************************************)
(* Market Confidence Meter backend (src/src): the TTL cache, the market    *)
(* data and prediction-market services and the confidence engine.          *)
(*                                                                         *)
(* Floats are modelled as exact rationals <<n, d>> (d > 0, lowest terms);  *)
(* the clock time.time() is the integer variable now, in seconds.          *)
(***************************************************************************)
EXTENDS Integers, Sequences, FiniteSets, TLC

(***************************************************************************)
(* Rational arithmetic standing for Python float arithmetic.               *)
(***************************************************************************)
Abs(x) == IF x < 0 THEN -x ELSE x

RECURSIVE GCD(_, _)
GCD(a, b) == IF b = 0 THEN a ELSE GCD(b, a % b)

Rat(n, d) ==
  LET s == IF d < 0 THEN -1 ELSE 1
      g == GCD(Abs(n), Abs(d))
  IN  <<(s * n) \div g, (s * d) \div g>>

R(n) == <<n, 1>>
RAdd(a, b) == Rat(a[1] * b[2] + b[1] * a[2], a[2] * b[2])
RSub(a, b) == Rat(a[1] * b[2] - b[1] * a[2], a[2] * b[2])
RMul(a, b) == Rat(a[1] * b[1], a[2] * b[2])
RDiv(a, b) == Rat(a[1] * b[2], a[2] * b[1])
RLt(a, b) == a[1] * b[2] < b[1] * a[2]
RLe(a, b) == a[1] * b[2] <= b[1] * a[2]
RIsZero(a) == a[1] = 0

\* Python's builtins: max(a, b) is b only when b > a, min(a, b) is b only when b < a
PyMax(a, b) == IF RLt(a, b) THEN b ELSE a
PyMin(a, b) == IF RLt(b, a) THEN b ELSE a

RECURSIVE SumSeq(_)
SumSeq(s) == IF s = <<>> THEN R(0) ELSE RAdd(Head(s), SumSeq(Tail(s)))

\* Python's None, and the markers of a key that is not in a dict: Absent in
\* SimpleCache._store (of CacheItems), NoEntry in _CACHE (of tuples)
None == [none |-> TRUE]
Absent == [absent |-> TRUE]
NoEntry == <<>>

(***************************************************************************)
(* src/utils/normalize.py                                                  *)
(***************************************************************************)
\* variant: the value is passed through unclipped
clip_passthrough(value, min_value, max_value) == value

clip(value, min_value, max_value) == PyMax(min_value, PyMin(max_value, value))

to_percentage(score_0_1) == RMul(clip(score_0_1, R(0), R(1)), R(100))

normalize_polymarket_probability(probability) ==
  LET p == IF RLt(R(1), probability) THEN RDiv(probability, R(100)) ELSE probability
  IN  clip(p, R(0), R(1))

\* a float division: Python raises ZeroDivisionError on a zero divisor
ZeroDivisionError == [raise |-> "ZeroDivisionError"]
FDiv(a, b) == IF RIsZero(b) THEN ZeroDivisionError ELSE RDiv(a, b)

normalize_momentum(return_pct, min_return, max_return) ==
  LET clipped == clip(return_pct, min_return, max_return)
  IN  FDiv(RSub(clipped, min_return), RSub(max_return, min_return))

normalize_trend(price_vs_ma_ratio, min_ratio, max_ratio) ==
  LET clipped == clip(price_vs_ma_ratio, min_ratio, max_ratio)
  IN  FDiv(RSub(clipped, min_ratio), RSub(max_ratio, min_ratio))

normalize_volatility(stdev_pct, low_vol, high_vol, invert) ==
  LET clipped == clip(stdev_pct, low_vol, high_vol)
      raw == FDiv(RSub(clipped, low_vol), RSub(high_vol, low_vol))
  IN  IF raw = ZeroDivisionError THEN raw
      ELSE IF invert THEN RSub(R(1), raw) ELSE raw

\* app/utils/normalize.py (the prototype): a score on the 0-100 scale
normalize_to_score(value, min_val, max_val) ==
  IF max_val = min_val THEN R(50)
  ELSE LET clamped == PyMax(min_val, PyMin(max_val, value))
           norm == RDiv(RSub(clamped, min_val), RSub(max_val, min_val))
       IN  RMul(norm, R(100))

(***************************************************************************)
(* src/services/indicator_service.py.  A series is a sequence of           *)
(* MarketDataPoint records [timestamp, price].                             *)
(***************************************************************************)
\* math.sqrt of a non-negative float, rounded down to 1/SqrtScale
SqrtScale == 1000

RECURSIVE ISqrt(_, _, _)
ISqrt(x, lo, hi) ==
  IF hi - lo <= 1 THEN lo
  ELSE LET mid == (lo + hi) \div 2
       IN  IF mid * mid <= x THEN ISqrt(x, mid, hi) ELSE ISqrt(x, lo, mid)

math_sqrt(r) ==
  Rat(ISqrt((r[1] * SqrtScale * SqrtScale) \div r[2], 0, 46341), SqrtScale)

\* variant: the plain ratio new / old
percent_change_ratio(old, new) ==
  IF RIsZero(old) THEN R(0) ELSE RDiv(new, old)

percent_change(old, new) ==
  IF RIsZero(old) THEN R(0) ELSE RDiv(RSub(new, old), old)

moving_average(prices) ==
  IF prices = <<>> THEN R(0) ELSE RDiv(SumSeq(prices), R(Len(prices)))

stdev(prices) ==
  IF Len(prices) < 2 THEN R(0)
  ELSE LET mean == moving_average(prices)
           sq == [i \in 1..Len(prices) |->
                    RMul(RSub(prices[i], mean), RSub(prices[i], mean))]
           var == RDiv(SumSeq(sq), R(Len(prices) - 1))
       IN  math_sqrt(var)

Indicators(momentum, trend, volatility) ==
  [momentum |-> momentum, trend |-> trend, volatility |-> volatility]

\* variant: an indicator for a series of one point as well
compute_indicators_short(series) ==
  IF Len(series) < 1 THEN None
  ELSE Indicators(Rat(1, 2), Rat(1, 2), R(1))

compute_indicators(series) ==
  IF Len(series) < 2 THEN None
  ELSE LET prices == [i \in 1..Len(series) |-> series[i].price]
           first_price == prices[1]
           last_price == prices[Len(prices)]
           raw_return == percent_change(first_price, last_price)
           norm_momentum == normalize_momentum(raw_return, Rat(-1, 5), Rat(1, 5))
           ma == moving_average(prices)
           price_vs_ma == IF RIsZero(ma) THEN R(1) ELSE RDiv(last_price, ma)
           norm_trend == normalize_trend(price_vs_ma, Rat(9, 10), Rat(11, 10))
           daily_returns == [i \in 1..(Len(prices) - 1) |->
                               percent_change(prices[i], prices[i + 1])]
           stdev_returns == stdev(daily_returns)
           norm_vol == normalize_volatility(stdev_returns, Rat(1, 20), Rat(2, 5), TRUE)
       IN  Indicators(norm_momentum, norm_trend, norm_vol)

(***************************************************************************)
(* src/services/cache.py.  A dict is a function from the keys in use to an *)
(* entry or to the marker that the key is not in the dict.                *)
(***************************************************************************)
CacheItem(value, expires_at) == [value |-> value, expires_at |-> expires_at]

\* variant of cache_get that answers None for an expired entry and keeps it
cache_get_keeps_expired(CACHE_, key, t) ==
  LET entry == CACHE_[key]
  IN  IF entry = NoEntry THEN <<CACHE_, None>>
      ELSE IF entry[1] < t THEN <<CACHE_, None>>
      ELSE <<CACHE_, entry[2]>>

\* variant of SimpleCache.get that drops an entry at its deadline already
SimpleCache_get_at_deadline(store_, key, t) ==
  LET item == store_[key]
  IN  IF item = Absent THEN <<store_, None>>
      ELSE IF item.expires_at <= t
             THEN <<[store_ EXCEPT ![key] = Absent], None>>
             ELSE <<store_, item.value>>

\* variant of SimpleCache.set that forgets to add the current time
SimpleCache_set_ttl_only(store_, key, value, ttl_seconds, t) ==
  [store_ EXCEPT ![key] = [value |-> value, expires_at |-> ttl_seconds]]

\* variant of SimpleCache.get that never looks at the deadline
SimpleCache_get_keeps_expired(store_, key, t) ==
  LET item == store_[key]
  IN  IF item = Absent THEN <<store_, None>> ELSE <<store_, item.value>>

\* SimpleCache.get: returns <<_store after the call, the value returned>>
SimpleCache_get(store_, key, t) ==
  LET item == store_[key]
  IN  IF item = Absent THEN <<store_, None>>
      ELSE IF item.expires_at < t
             THEN <<[store_ EXCEPT ![key] = Absent], None>>
             ELSE <<store_, item.value>>

SimpleCache_set(store_, key, value, ttl_seconds, t) ==
  [store_ EXCEPT ![key] = CacheItem(value, t + ttl_seconds)]

SimpleCache_clear(store_) == [k \in DOMAIN store_ |-> Absent]

\* cache_get / cache_set / cache_clear on the module-level dict _CACHE,
\* whose entries are the tuples (expires_at, value)
cache_get(CACHE_, key, t) ==
  LET entry == CACHE_[key]
  IN  IF entry = NoEntry THEN <<CACHE_, None>>
      ELSE IF entry[1] < t
             THEN <<[CACHE_ EXCEPT ![key] = NoEntry], None>>
             ELSE <<CACHE_, entry[2]>>

cache_set(CACHE_, key, value, ttl_seconds, t) ==
  [CACHE_ EXCEPT ![key] = <<t + ttl_seconds, value>>]

cache_clear(CACHE_) == [k \in DOMAIN CACHE_ |-> NoEntry]

(***************************************************************************)
(* src/config/assets.py, src/config/weights.py.  A configuration is a      *)
(* record; dicts keep their insertion order as a sequence of keys.         *)
(* ShippedConfig is the shipped tables cut down to one asset per data      *)
(* source, with the categories of those assets.                            *)
(***************************************************************************)
PolymarketMarketConfig(market_id, id, direction, impact_weight) ==
  [market_id |-> market_id, id |-> id, direction |-> direction,
   impact_weight |-> impact_weight]

ShippedConfig ==
  [ASSETS           |-> <<"spy", "btc">>,
   category         |-> [a \in {"spy", "btc"} |->
                           IF a = "btc" THEN "crypto" ELSE "equities"],
   data_source      |-> [a \in {"spy", "btc"} |->
                           IF a = "btc" THEN "coingecko" ELSE "yfinance"],
   ASSET_WEIGHTS    |-> [a \in {"spy", "btc"} |->
                           IF a = "btc" THEN Rat(3, 2) ELSE R(1)],
   CATEGORIES       |-> <<"equities", "crypto">>,
   CATEGORY_WEIGHTS |-> [c \in {"equities", "crypto"} |->
                           IF c = "equities" THEN Rat(35, 100) ELSE Rat(20, 100)],
   POLYMARKET_MARKETS |->
     <<PolymarketMarketConfig("recession_2025", "bitcoin_today", "positive", R(1))>>,
   overall_sentiment_weight |-> Rat(15, 100),
   max_adjustment_points    |-> R(10)]

\* CATEGORY_TO_ASSETS: category -> list of asset ids, in ASSETS order
CATEGORY_TO_ASSETS(c) ==
  [cat \in {c.category[c.ASSETS[i]] : i \in 1..Len(c.ASSETS)} |->
     SelectSeq(c.ASSETS, LAMBDA a : c.category[a] = cat)]

(***************************************************************************)
(* src/services/polymarket_service.py                                      *)
(***************************************************************************)
POLYMARKET_TTL_SECONDS == 60
POLYMARKET_CACHE_KEY == [kind |-> "polymarket_sentiment", asset |-> "", days |-> 0]

\* a price token float() rejects, written as the non-number 0/0
BadToken == <<0, 0>>

PolymarketMarketSentiment(market_id, id, probability, impact) ==
  [market_id |-> market_id, id |-> id, probability |-> probability,
   impact |-> impact]

\* variant of _fetch_polymarket_market that reports a neutral 0.5 for a market
\* without outcomePrices
fetch_polymarket_market_neutral(config, market_data) ==
  LET raw == market_data.outcomePrices
      parts == IF raw = None THEN <<Rat(1, 2)>> ELSE raw.tokens
  IN  IF parts = <<>> \/ (\E i \in 1..Len(parts) : parts[i] = BadToken) THEN None
      ELSE PolymarketMarketSentiment(
             config.market_id, config.id,
             normalize_polymarket_probability(
               IF config.direction = "negative"
                 THEN RSub(R(1), normalize_polymarket_probability(parts[1]))
                 ELSE normalize_polymarket_probability(parts[1])),
             config.impact_weight)

\* variant of _fetch_polymarket_market that ignores the direction
fetch_polymarket_market_no_inversion(config, market_data) ==
  LET raw == market_data.outcomePrices
  IN  IF raw = None THEN None
      ELSE IF raw.kind \notin {"list", "json", "csv"} \/ raw.tokens = <<>> THEN None
      ELSE IF \E i \in 1..Len(raw.tokens) : raw.tokens[i] = BadToken THEN None
      ELSE PolymarketMarketSentiment(
             config.market_id, config.id,
             normalize_polymarket_probability(raw.tokens[1]),
             config.impact_weight)

\* _fetch_polymarket_market after get_json returned market_data: the payload's
\* outcomePrices is None (no such key) or [kind, tokens], kind "list", "json"
\* (a JSON array string), "csv" (any other string) or "other" (no list, no str)
fetch_polymarket_market(config, market_data) ==
  LET raw == market_data.outcomePrices
  IN  IF raw = None THEN None
      ELSE LET failed == /\ raw.kind \in {"list", "json", "csv"}
                         /\ \E i \in 1..Len(raw.tokens) : raw.tokens[i] = BadToken
               parts == IF raw.kind \in {"list", "json", "csv"}
                          THEN raw.tokens ELSE None
           IN  IF failed THEN None
               ELSE IF parts = None \/ parts = <<>> THEN None
               ELSE LET yes_price == parts[1]
                        prob_raw == normalize_polymarket_probability(yes_price)
                        prob_good == IF config.direction = "negative"
                                       THEN RSub(R(1), prob_raw) ELSE prob_raw
                    IN  PolymarketMarketSentiment(
                          config.market_id, config.id,
                          normalize_polymarket_probability(prob_good),
                          config.impact_weight)

\* one pass of the loop of get_polymarket_sentiment over its locals
\* <<markets, weighted_sum, total_weight>>
sentiment_loop_body(acc, sentiment) ==
  IF sentiment = None THEN acc
  ELSE IF RLt(R(0), sentiment.impact)
         THEN <<Append(acc[1], sentiment),
                RAdd(acc[2], RMul(sentiment.probability, sentiment.impact)),
                RAdd(acc[3], sentiment.impact)>>
         ELSE <<Append(acc[1], sentiment), acc[2], acc[3]>>

PolymarketSentiment(markets, aggregate_sentiment_score) ==
  [markets |-> markets, aggregate_sentiment_score |-> aggregate_sentiment_score]

\* variant of the end of get_polymarket_sentiment whose default is 0
sentiment_result_zero_default(acc) ==
  [markets |-> acc[1],
   aggregate_sentiment_score |->
     RMul(IF RLt(R(0), acc[3]) THEN RDiv(acc[2], acc[3]) ELSE R(0), R(100))]

\* the end of get_polymarket_sentiment: the aggregate of the loop's locals
sentiment_result(acc) ==
  LET aggregate_prob == IF RLt(R(0), acc[3]) THEN RDiv(acc[2], acc[3]) ELSE Rat(1, 2)
  IN  PolymarketSentiment(acc[1], RMul(aggregate_prob, R(100)))

(***************************************************************************)
(* src/services/confidence_engine.py                                       *)
(***************************************************************************)
\* variant: the three indicators blended with equal weights
compute_asset_score_equal_blend(indicators) ==
  to_percentage(RDiv(RAdd(RAdd(indicators.momentum, indicators.trend),
                          indicators.volatility),
                     R(3)))

compute_asset_score(indicators) ==
  to_percentage(RAdd(RAdd(RMul(Rat(1, 2), indicators.momentum),
                          RMul(Rat(3, 10), indicators.trend)),
                     RMul(Rat(1, 5), indicators.volatility)))

\* the loop of _weighted_average; keys is scores.items() in order
RECURSIVE weighted_average_loop(_, _, _, _)
weighted_average_loop(keys, scores, weights, acc) ==
  IF keys = <<>> THEN acc
  ELSE LET key == Head(keys)
           w == IF key \in DOMAIN weights THEN weights[key] ELSE R(1)
       IN  weighted_average_loop(Tail(keys), scores, weights,
             <<RAdd(acc[1], RMul(scores[key], w)), RAdd(acc[2], w)>>)

weighted_average(keys, scores, weights) ==
  LET acc == weighted_average_loop(keys, scores, weights, <<R(0), R(0)>>)
  IN  IF RIsZero(acc[2]) THEN R(0) ELSE RDiv(acc[1], acc[2])

AssetConfidence(score, indicators, latest_price) ==
  [score |-> score, indicators |-> indicators,
   raw_data |-> [latest_price |-> latest_price]]

\* variant: an asset without indicators gets the score 0
asset_confidence_zero_when_absent(series) ==
  LET indicators == compute_indicators(series)
      latest_price == IF series # <<>> THEN series[Len(series)].price ELSE R(0)
  IN  IF indicators = None
        THEN AssetConfidence(R(0), Indicators(R(0), R(0), R(0)), latest_price)
        ELSE AssetConfidence(compute_asset_score(indicators), indicators, latest_price)

\* step 1 of build_confidence_breakdown for one asset, from its series
asset_confidence(series) ==
  LET indicators == compute_indicators(series)
      latest_price == IF series # <<>> THEN series[Len(series)].price ELSE R(0)
  IN  IF indicators = None
        THEN AssetConfidence(R(50),
               Indicators(Rat(1, 2), Rat(1, 2), Rat(1, 2)), latest_price)
        ELSE AssetConfidence(compute_asset_score(indicators), indicators, latest_price)

CategoryConfidence(score, assets) == [score |-> score, assets |-> assets]

\* variant of category_score that ignores ASSET_WEIGHTS (plain mean)
category_score_unweighted(c, asset_ids, asset_confidences) ==
  RDiv(SumSeq([i \in 1..Len(asset_ids) |-> asset_confidences[asset_ids[i]].score]),
       R(Len(asset_ids)))

\* step 2: category scores from asset_confidences (asset id -> AssetConfidence)
category_score(c, asset_ids, asset_confidences) ==
  LET ids == {asset_ids[i] : i \in 1..Len(asset_ids)}
      scores == [aid \in ids |-> asset_confidences[aid].score]
      weights_in_cat == [aid \in ids |->
                           IF aid \in DOMAIN c.ASSET_WEIGHTS
                             THEN c.ASSET_WEIGHTS[aid] ELSE R(1)]
  IN  weighted_average(asset_ids, scores, weights_in_cat)

aggregate_categories(c, asset_confidences) ==
  LET cta == CATEGORY_TO_ASSETS(c)
  IN  [cat \in DOMAIN cta |->
         CategoryConfidence(
           category_score(c, cta[cat], asset_confidences),
           [aid \in {cta[cat][i] : i \in 1..Len(cta[cat])} |-> asset_confidences[aid]])]

\* step 3 after get_polymarket_sentiment returned: the engine's own aggregate
engine_sentiment(polymarket_markets) ==
  LET n == Len(polymarket_markets)
      mids == [i \in 1..n |-> polymarket_markets[i].market_id]
      byId(mid) == CHOOSE m \in {polymarket_markets[i] : i \in 1..n} : m.market_id = mid
      ids == {mids[i] : i \in 1..n}
      prob_scores == [mid \in ids |-> byId(mid).probability]
      prob_weights == [mid \in ids |-> byId(mid).impact]
      agg_prob_0_1 == IF n > 0 THEN weighted_average(mids, prob_scores, prob_weights)
                      ELSE Rat(1, 2)
  IN  PolymarketSentiment(polymarket_markets, to_percentage(agg_prob_0_1))

\* variant: a weighted category without members is left out of the base
base_overall_members_only(c, category_confidences) ==
  LET present == SelectSeq(c.CATEGORIES, LAMBDA cat : cat \in DOMAIN category_confidences)
      cats == {present[i] : i \in 1..Len(present)}
      cat_score_map == [cat \in cats |-> category_confidences[cat].score]
      cat_weight_map == [cat \in cats |-> c.CATEGORY_WEIGHTS[cat]]
  IN  weighted_average(present, cat_score_map, cat_weight_map)

\* step 4: the base score, the sentiment adjustment and the clamp
base_overall(c, category_confidences) ==
  LET cats == {c.CATEGORIES[i] : i \in 1..Len(c.CATEGORIES)}
      cat_score_map == [cat \in cats |->
                          IF cat \in DOMAIN category_confidences
                            THEN category_confidences[cat].score ELSE R(50)]
      cat_weight_map == [cat \in cats |-> c.CATEGORY_WEIGHTS[cat]]
  IN  weighted_average(c.CATEGORIES, cat_score_map, cat_weight_map)

\* variant of sentiment_adjustment that omits overall_sentiment_weight
sentiment_adjustment_unweighted(c, aggregate_sentiment_score) ==
  RMul(RDiv(RSub(aggregate_sentiment_score, R(50)), R(50)), c.max_adjustment_points)

sentiment_adjustment(c, aggregate_sentiment_score) ==
  LET sentiment_deviation == RDiv(RSub(aggregate_sentiment_score, R(50)), R(50))
  IN  RMul(RMul(sentiment_deviation, c.max_adjustment_points),
           c.overall_sentiment_weight)

\* variant of overall_score without the clamp of line 182
overall_score_unclamped(c, category_confidences, aggregate_sentiment_score) ==
  RAdd(base_overall(c, category_confidences),
       sentiment_adjustment(c, aggregate_sentiment_score))

overall_score(c, category_confidences, aggregate_sentiment_score) ==
  PyMax(R(0), PyMin(R(100),
    RAdd(base_overall(c, category_confidences),
         sentiment_adjustment(c, aggregate_sentiment_score))))

ConfidenceBreakdown(overall, categories, polymarket_sentiment) ==
  [overall |-> overall, categories |-> categories,
   polymarket_sentiment |-> polymarket_sentiment]

\* steps 3-5 from the category confidences and the markets of the sentiment
assemble_breakdown(c, category_confidences, polymarket_markets) ==
  LET polymarket_sentiment == engine_sentiment(polymarket_markets)
  IN  ConfidenceBreakdown(
        overall_score(c, category_confidences,
                      polymarket_sentiment.aggregate_sentiment_score),
        category_confidences, polymarket_sentiment)

(***************************************************************************)
(* The service as a state machine.  Each request is a coroutine on one     *)
(* event loop: it runs alone until it awaits an HTTP response (CoinGecko,  *)
(* Polymarket), where other requests may run; a yfinance download blocks   *)
(* the loop.  Time passes between steps (Tick), never inside one.          *)
(***************************************************************************)
VARIABLES
  now,        \* time.time(), in seconds
  nticks,     \* the Tick steps taken so far
  store,      \* cache._store of the SimpleCache instance: key -> CacheItem
  CACHE,      \* the module-level dict _CACHE: key -> (expires_at, value)
  last_set,   \* history: key -> the time, TTL and value of the last set of that key
  proc,       \* the locals and position of each request
  running,    \* the request that holds the event loop, or 0
  api,        \* the entry point the calls of this run go to
  ret,        \* the last direct call of the cache API, if a get, and its result
  agg_in,     \* the inputs of an aggregation applied on its own
  agg_out     \* and its result

vars == <<now, nticks, store, CACHE, last_set, proc, running, api, ret, agg_in, agg_out>>

\* bounds of the model
NProcs == 2
MaxTicks == 3

Procs == 1..NProcs
TickSteps == {1, 30}
LookbackDays == {30}

breakdown_ttl_seconds == 30
history_ttl_seconds == 60
latest_price_ttl_seconds == 60

breakdown_key(lookback_days) ==
  [kind |-> "confidence_breakdown", asset |-> "", days |-> lookback_days]
history_key(asset_id, lookback_days) ==
  [kind |-> "history", asset |-> asset_id, days |-> lookback_days]
latest_price_key(asset_id) ==
  [kind |-> "latest_price", asset |-> asset_id, days |-> 0]

AssetIds(c) == {c.ASSETS[i] : i \in 1..Len(c.ASSETS)}

StoreKeys(c) ==
  {breakdown_key(d) : d \in LookbackDays}
    \cup {history_key(a, d) : a \in AssetIds(c), d \in LookbackDays}
    \cup {latest_price_key(a) : a \in AssetIds(c)}

MarketDataPoint(timestamp, price) == [timestamp |-> timestamp, price |-> R(price)]

\* what the price history provider may answer (it need not sort)
ProviderSeries ==
  { <<>>,
    <<MarketDataPoint(2, 130), MarketDataPoint(1, 100)>> }

\* what the prediction-market provider may answer to a successful request
MarketPayloads ==
  { [outcomePrices |-> None],
    [outcomePrices |-> [kind |-> "json", tokens |-> <<R(1), R(0)>>]] }

\* sorted(series, key=lambda p: p.timestamp): a stable insertion sort
RECURSIVE insert_sorted(_, _)
insert_sorted(s, x) ==
  IF s = <<>> THEN <<x>>
  ELSE IF x.timestamp < Head(s).timestamp THEN <<x>> \o s
  ELSE <<Head(s)>> \o insert_sorted(Tail(s), x)

RECURSIVE sorted(_)
sorted(series) ==
  IF series = <<>> THEN <<>>
  ELSE insert_sorted(sorted(SubSeq(series, 1, Len(series) - 1)), series[Len(series)])

Idle ==
  [pc |-> "idle", op |-> "", lookback_days |-> 0, i |-> 0,
   asset_confidences |-> <<>>, category_confidences |-> None,
   m |-> 0, acc |-> None, result |-> None, err |-> "", fetches |-> 0,
   cached |-> FALSE, asset |-> "", started |-> 0]

\* the function returned result (cached: from its cache), its frame is gone
Returned(loc, result, cached) ==
  [Idle EXCEPT !.pc = "done", !.op = loc.op, !.lookback_days = loc.lookback_days,
               !.asset = loc.asset, !.result = result, !.cached = cached,
               !.fetches = loc.fetches, !.started = loc.started]

\* an exception left the function
Raised(loc, err) ==
  [Idle EXCEPT !.pc = "failed", !.op = loc.op, !.lookback_days = loc.lookback_days,
               !.asset = loc.asset, !.err = err, !.fetches = loc.fetches,
               !.started = loc.started]

\* a machine state is [store, CACHE, last_set, loc]: the two caches, the set
\* history and the locals of the request that is running
do_store_set(ms, key, value, ttl_seconds, t) ==
  [ms EXCEPT !.store = SimpleCache_set(ms.store, key, value, ttl_seconds, t),
             !.last_set = [ms.last_set EXCEPT ![key] =
                            [at |-> t, ttl |-> ttl_seconds, value |-> value]]]

do_cache_set(ms, key, value, ttl_seconds, t) ==
  [ms EXCEPT !.CACHE = cache_set(ms.CACHE, key, value, ttl_seconds, t),
             !.last_set = [ms.last_set EXCEPT ![key] =
                            [at |-> t, ttl |-> ttl_seconds, value |-> value]]]

\* build_confidence_breakdown, lines 164-191: assemble, store and return
finish_breakdown(ms, c, t, polymarket_sentiment) ==
  LET breakdown == assemble_breakdown(c, ms.loc.category_confidences,
                                      polymarket_sentiment.markets)
      ms1 == do_store_set(ms, breakdown_key(ms.loc.lookback_days), breakdown,
                          breakdown_ttl_seconds, t)
  IN  [ms1 EXCEPT !.loc = Returned(ms.loc, breakdown, FALSE)]

\* get_polymarket_sentiment, lines 162-175: aggregate, store and return
finish_sentiment(ms, c, t) ==
  LET result == sentiment_result(ms.loc.acc)
      ms1 == do_cache_set(ms, POLYMARKET_CACHE_KEY, result, POLYMARKET_TTL_SECONDS, t)
  IN  finish_breakdown(ms1, c, t, result)

\* get_polymarket_sentiment up to its first await
run_sentiment(ms, c, t) ==
  LET g == cache_get(ms.CACHE, POLYMARKET_CACHE_KEY, t)
      ms1 == [ms EXCEPT !.CACHE = g[1]]
  IN  IF g[2] # None THEN finish_breakdown(ms1, c, t, g[2])
      ELSE LET ms2 == [ms1 EXCEPT !.loc.acc = <<<<>>, R(0), R(0)>>, !.loc.m = 1]
           IN  IF Len(c.POLYMARKET_MARKETS) = 0 THEN finish_sentiment(ms2, c, t)
               ELSE [ms2 EXCEPT !.loc.pc = "market",
                                !.loc.fetches = ms.loc.fetches + 1]

\* the body of the asset loop once the series of asset i is there
take_series(ms, c, series) ==
  LET aid == c.ASSETS[ms.loc.i]
  IN  [ms EXCEPT !.loc.asset_confidences =
                    Append(ms.loc.asset_confidences, asset_confidence(series)),
                 !.loc.i = ms.loc.i + 1]

\* the asset loop of build_confidence_breakdown from asset i on, up to the
\* next provider request; then step 2 and get_polymarket_sentiment
RECURSIVE run_assets(_, _, _)
run_assets(ms, c, t) ==
  IF ms.loc.i > Len(c.ASSETS)
    THEN LET confs == [k \in 1..Len(c.ASSETS) |-> ms.loc.asset_confidences[k]]
             by_id == [aid \in AssetIds(c) |->
                         confs[CHOOSE k \in 1..Len(c.ASSETS) : c.ASSETS[k] = aid]]
         IN  run_sentiment(
               [ms EXCEPT !.loc.category_confidences = aggregate_categories(c, by_id)],
               c, t)
    ELSE LET aid == c.ASSETS[ms.loc.i]
             key == history_key(aid, ms.loc.lookback_days)
             g == SimpleCache_get(ms.store, key, t)
             ms1 == [ms EXCEPT !.store = g[1]]
         IN  IF g[2] # None THEN run_assets(take_series(ms1, c, g[2]), c, t)
             ELSE IF c.data_source[aid] = "coingecko"
               THEN [ms1 EXCEPT !.loc.pc = "cg_history",
                                !.loc.fetches = ms.loc.fetches + 1]
             ELSE IF c.data_source[aid] = "yfinance"
               THEN [ms1 EXCEPT !.loc.pc = "yf_history",
                                !.loc.fetches = ms.loc.fetches + 1]
             ELSE run_assets(
                    take_series(
                      do_store_set(ms1, key, <<>>, history_ttl_seconds, t), c, <<>>),
                    c, t)

\* get_historical_series, lines 125-129, once the provider answered, and on
history_returned(ms, c, t, answer) ==
  LET aid == c.ASSETS[ms.loc.i]
      series == sorted(answer)
      ms1 == do_store_set(ms, history_key(aid, ms.loc.lookback_days), series,
                          history_ttl_seconds, t)
  IN  run_assets(take_series(ms1, c, series), c, t)

\* the loop of get_polymarket_sentiment once market m answered, and on
market_returned(ms, c, t, market_data) ==
  LET config == c.POLYMARKET_MARKETS[ms.loc.m]
      sentiment == fetch_polymarket_market(config, market_data)
      ms1 == [ms EXCEPT !.loc.acc = sentiment_loop_body(ms.loc.acc, sentiment),
                        !.loc.m = ms.loc.m + 1]
  IN  IF ms1.loc.m > Len(c.POLYMARKET_MARKETS) THEN finish_sentiment(ms1, c, t)
      ELSE [ms1 EXCEPT !.loc.fetches = ms.loc.fetches + 1]

\* variant: an empty breakdown is stored before the asset loop starts
start_breakdown_stores_early(ms, c, t) ==
  LET g == SimpleCache_get(ms.store, breakdown_key(ms.loc.lookback_days), t)
      ms1 == [ms EXCEPT !.store = g[1]]
      partial == ConfidenceBreakdown(R(0), <<>>, PolymarketSentiment(<<>>, R(50)))
  IN  IF g[2] # None
        THEN [ms1 EXCEPT !.loc = Returned(ms.loc, g[2], TRUE)]
        ELSE run_assets(
               [do_store_set(ms1, breakdown_key(ms.loc.lookback_days), partial,
                             breakdown_ttl_seconds, t) EXCEPT !.loc.i = 1],
               c, t)

\* build_confidence_breakdown, lines 85-95, up to the first provider request
start_breakdown(ms, c, t) ==
  LET g == SimpleCache_get(ms.store, breakdown_key(ms.loc.lookback_days), t)
      ms1 == [ms EXCEPT !.store = g[1]]
  IN  IF g[2] # None
        THEN [ms1 EXCEPT !.loc = Returned(ms.loc, g[2], TRUE)]
        ELSE run_assets([ms1 EXCEPT !.loc.i = 1], c, t)

\* what CoinGecko's simple/price may answer: a payload with the price, or one
\* without it
ProviderPrices == {[has_usd |-> TRUE, usd |-> R(100)], [has_usd |-> FALSE, usd |-> R(0)]}

\* get_latest_price, lines 82-95, up to the provider request
start_latest_price(ms, c, t, asset_id) ==
  LET g == SimpleCache_get(ms.store, latest_price_key(asset_id), t)
      ms1 == [ms EXCEPT !.store = g[1], !.loc.asset = asset_id]
  IN  IF g[2] # None THEN [ms1 EXCEPT !.loc = Returned(ms1.loc, g[2], TRUE)]
      ELSE IF c.data_source[asset_id] = "coingecko"
        THEN [ms1 EXCEPT !.loc.pc = "cg_price", !.loc.fetches = 1]
      ELSE IF c.data_source[asset_id] = "yfinance"
        THEN [ms1 EXCEPT !.loc.pc = "yf_price", !.loc.fetches = 1]
      ELSE [ms1 EXCEPT !.loc = Returned(ms1.loc, None, FALSE)]

\* variant of get_latest_price that stores whatever the provider gave
latest_price_returned_stores_none(ms, t, price) ==
  LET ms1 == do_store_set(ms, latest_price_key(ms.loc.asset), price,
                          latest_price_ttl_seconds, t)
  IN  [ms1 EXCEPT !.loc = Returned(ms.loc, price, FALSE)]

\* get_latest_price, lines 98-101, with the price the provider gave, or None
latest_price_returned(ms, t, price) ==
  LET ms1 == IF price # None
               THEN do_store_set(ms, latest_price_key(ms.loc.asset), price,
                                 latest_price_ttl_seconds, t)
               ELSE ms
  IN  [ms1 EXCEPT !.loc = Returned(ms.loc, price, FALSE)]

Config == ShippedConfig

MS(p) == [store |-> store, CACHE |-> CACHE, last_set |-> last_set, loc |-> proc[p]]

\* the step of request p ends in machine state ms
Commit(p, ms) ==
  /\ store' = ms.store
  /\ CACHE' = ms.CACHE
  /\ last_set' = ms.last_set
  /\ proc' = [proc EXCEPT ![p] = ms.loc]
  /\ running' = IF ms.loc.pc \in {"yf_history", "yf_price"} THEN p ELSE 0
  /\ UNCHANGED <<now, nticks, api, ret, agg_in, agg_out>>

\* the state after import: both caches empty, no request
Fresh ==
  /\ now = 0
  /\ nticks = 0
  /\ store = [k \in StoreKeys(Config) |-> Absent]
  /\ CACHE = [k \in {POLYMARKET_CACHE_KEY} |-> NoEntry]
  /\ last_set = [k \in StoreKeys(Config) \cup {POLYMARKET_CACHE_KEY} |-> None]
  /\ proc = [p \in Procs |-> Idle]
  /\ running = 0

\* no direct cache call and no aggregation has been made
Unused ==
  /\ ret = None
  /\ agg_in = None
  /\ agg_out = None

\* build_confidence_breakdown and get_latest_price share no cache key: a run
\* calls one of the two
Init == Fresh /\ Unused /\ api \in {"build_confidence_breakdown", "get_latest_price"}

Tick ==
  /\ nticks < MaxTicks
  /\ \E d \in TickSteps : now' = now + d
  /\ nticks' = nticks + 1
  /\ UNCHANGED <<store, CACHE, last_set, proc, running, api, ret, agg_in, agg_out>>

\* a request GET /confidence?lookback_days=d arrives; proc[p] keeps the outcome
\* of p's previous request until then
StartBreakdown(p) ==
  /\ api = "build_confidence_breakdown"
  /\ running = 0
  /\ proc[p].pc \in {"idle", "done", "failed"}
  /\ \E d \in LookbackDays :
       Commit(p, start_breakdown(
         [MS(p) EXCEPT !.loc = [Idle EXCEPT !.op = "breakdown", !.lookback_days = d,
                                            !.started = now]],
         Config, now))

\* yfinance answers (it reports a failed download as an empty frame)
YfinanceHistoryReturns(p) ==
  /\ running = p
  /\ proc[p].pc = "yf_history"
  /\ \E answer \in ProviderSeries : Commit(p, history_returned(MS(p), Config, now, answer))

\* CoinGecko answers with a 2xx response
CoingeckoHistoryReturns(p) ==
  /\ running = 0
  /\ proc[p].pc = "cg_history"
  /\ \E answer \in ProviderSeries : Commit(p, history_returned(MS(p), Config, now, answer))

\* get_json raises HTTPError (timeout, request error, non-2xx); nothing on the
\* way up catches it
CoingeckoHistoryFails(p) ==
  /\ running = 0
  /\ proc[p].pc = "cg_history"
  /\ Commit(p, [MS(p) EXCEPT !.loc = Raised(proc[p], "HTTPError:history")])

\* Polymarket answers with a 2xx response
MarketReturns(p) ==
  /\ running = 0
  /\ proc[p].pc = "market"
  /\ \E market_data \in MarketPayloads :
       Commit(p, market_returned(MS(p), Config, now, market_data))

MarketFails(p) ==
  /\ running = 0
  /\ proc[p].pc = "market"
  /\ Commit(p, [MS(p) EXCEPT !.loc = Raised(proc[p], "HTTPError:market")])

\* a call get_latest_price(asset_id)
StartLatestPrice(p) ==
  /\ api = "get_latest_price"
  /\ running = 0
  /\ proc[p].pc \in {"idle", "done", "failed"}
  /\ \E asset_id \in AssetIds(Config) :
       Commit(p, start_latest_price(
         [MS(p) EXCEPT !.loc = [Idle EXCEPT !.op = "latest_price", !.started = now]],
         Config, now, asset_id))

\* yfinance answers the two-day history; the price is the last row's
YfinancePriceReturns(p) ==
  /\ running = p
  /\ proc[p].pc = "yf_price"
  /\ \E series \in ProviderSeries :
       Commit(p, latest_price_returned(MS(p), now,
         IF series # <<>> THEN series[Len(series)].price ELSE None))

\* CoinGecko answers with a 2xx response
CoingeckoPriceReturns(p) ==
  /\ running = 0
  /\ proc[p].pc = "cg_price"
  /\ \E data \in ProviderPrices : Commit(p, latest_price_returned(MS(p), now,
         IF data.has_usd THEN data.usd ELSE None))

CoingeckoPriceFails(p) ==
  /\ running = 0
  /\ proc[p].pc = "cg_price"
  /\ Commit(p, [MS(p) EXCEPT !.loc = Raised(proc[p], "HTTPError:price")])

\* the steps of one build_confidence_breakdown request
Breakdown(p) ==
  \/ StartBreakdown(p)
  \/ YfinanceHistoryReturns(p)
  \/ CoingeckoHistoryReturns(p)
  \/ CoingeckoHistoryFails(p)
  \/ MarketReturns(p)
  \/ MarketFails(p)

\* the steps of one get_latest_price call
LatestPrice(p) ==
  \/ StartLatestPrice(p)
  \/ YfinancePriceReturns(p)
  \/ CoingeckoPriceReturns(p)
  \/ CoingeckoPriceFails(p)

\* Spec: calls come one after the other, and time passes between any two steps
Next ==
  \/ Tick
  \/ Breakdown(1)
  \/ LatestPrice(1)

Spec == Init /\ [][Next]_vars

\* SpecBoth: as Spec, with a caller that turns from breakdowns to latest
\* prices in one run
SwitchApi ==
  /\ \A p \in Procs : proc[p].pc \in {"idle", "done", "failed"}
  /\ api = "build_confidence_breakdown"
  /\ api' = "get_latest_price"
  /\ UNCHANGED <<now, nticks, store, CACHE, last_set, proc, running, ret, agg_in, agg_out>>

NextBoth ==
  \/ Tick
  \/ Breakdown(1)
  \/ LatestPrice(1)
  \/ SwitchApi

SpecBoth == Init /\ [][NextBoth]_vars

\* SpecAge: as Spec for build_confidence_breakdown, with steps of time that
\* reach the expiry of a price series as well
AgeSteps == {1, 30, 60}

TickAge ==
  /\ nticks < MaxTicks
  /\ \E d \in AgeSteps : now' = now + d
  /\ nticks' = nticks + 1
  /\ UNCHANGED <<store, CACHE, last_set, proc, running, api, ret, agg_in, agg_out>>

NextAge ==
  \/ TickAge
  \/ Breakdown(1)

InitAge == Fresh /\ Unused /\ api = "build_confidence_breakdown"

SpecAge == InitAge /\ [][NextAge]_vars

\* SpecConc: NProcs requests for a breakdown interleave at their awaits, within
\* one second
NextConc == \E p \in Procs : Breakdown(p)

InitConc == Fresh /\ Unused /\ api = "build_confidence_breakdown"

SpecConc == InitConc /\ [][NextConc]_vars

(***************************************************************************)
(* SpecCache: the two stores of cache.py under direct calls of their       *)
(* functions, in any order and at any time.  ret is what the latest call   *)
(* returned if it was a get.                                               *)
(***************************************************************************)
CacheKeys == {breakdown_key(30), history_key("spy", 30)}
CacheValues == {[v |-> 1], [v |-> 2]}
CacheTTLs == {1, 30}

\* the arguments of the set calls: every value and TTL for one key of each
\* store, one value and TTL for the other key
SetArgs(keys) ==
  {[key |-> key, value |-> value, ttl_seconds |-> ttl_seconds] :
     key \in keys \ {history_key("spy", 30)}, value \in CacheValues, ttl_seconds \in CacheTTLs}
  \cup {[key |-> key, value |-> [v |-> 1], ttl_seconds |-> 30] :
          key \in keys \cap {history_key("spy", 30)}}

Call(op, key, value) == [op |-> op, key |-> key, value |-> value]

InitCache ==
  /\ Fresh
  /\ api = "cache"
  /\ ret = None
  /\ agg_in = None
  /\ agg_out = None

CacheFrame == UNCHANGED <<now, nticks, proc, running, api, agg_in, agg_out>>

\* cache.get(key)
SimpleCacheGet(key) ==
  LET g == SimpleCache_get(store, key, now)
  IN  /\ store' = g[1]
      /\ ret' = Call("cache.get", key, g[2])
      /\ UNCHANGED <<CACHE, last_set>>
      /\ CacheFrame

\* cache.set(key, value, ttl_seconds)
SimpleCacheSet ==
  \E a \in SetArgs(CacheKeys) :
    LET ms == do_store_set(MS(1), a.key, a.value, a.ttl_seconds, now)
    IN  /\ store' = ms.store
        /\ last_set' = ms.last_set
        /\ ret' = None
        /\ UNCHANGED CACHE
        /\ CacheFrame

\* cache.clear()
SimpleCacheClear ==
  /\ store' = SimpleCache_clear(store)
  /\ last_set' = [k \in DOMAIN last_set |-> IF k \in DOMAIN store THEN None ELSE last_set[k]]
  /\ ret' = None
  /\ UNCHANGED CACHE
  /\ CacheFrame

\* cache_get(key)
ModuleCacheGet(key) ==
  LET g == cache_get(CACHE, key, now)
  IN  /\ CACHE' = g[1]
      /\ ret' = Call("cache_get", key, g[2])
      /\ UNCHANGED <<store, last_set>>
      /\ CacheFrame

\* cache_set(key, value, ttl_seconds)
ModuleCacheSet ==
  \E a \in SetArgs(DOMAIN CACHE) :
    LET ms == do_cache_set(MS(1), a.key, a.value, a.ttl_seconds, now)
    IN  /\ CACHE' = ms.CACHE
        /\ last_set' = ms.last_set
        /\ ret' = None
        /\ UNCHANGED store
        /\ CacheFrame

\* cache_clear()
ModuleCacheClear ==
  /\ CACHE' = cache_clear(CACHE)
  /\ last_set' = [k \in DOMAIN last_set |-> IF k \in DOMAIN CACHE THEN None ELSE last_set[k]]
  /\ ret' = None
  /\ UNCHANGED store
  /\ CacheFrame

NextCache ==
  \/ Tick
  \/ \E key \in CacheKeys : SimpleCacheGet(key)
  \/ SimpleCacheSet
  \/ SimpleCacheClear
  \/ \E key \in DOMAIN CACHE : ModuleCacheGet(key)
  \/ ModuleCacheSet
  \/ ModuleCacheClear

SpecCache == InitCache /\ [][NextCache]_vars

(***************************************************************************)
(* SpecAgg: steps 2-5 of build_confidence_breakdown applied to drawn asset *)
(* scores, weight tables and markets.                                      *)
(***************************************************************************)
AggAssets == <<"spy", "qqq", "btc">>
AggScores == {R(0), R(40), R(50), R(60), R(100)}

\* weight tables: spy's entry may be missing from ASSET_WEIGHTS; gold may
\* have a category weight and no member asset
AggConfig(w_spy, w_qqq, w_btc, w_equities, w_crypto, with_gold) ==
  [ASSETS           |-> AggAssets,
   category         |-> [a \in {"spy", "qqq", "btc"} |->
                           IF a = "btc" THEN "crypto" ELSE "equities"],
   data_source      |-> [a \in {"spy", "qqq", "btc"} |->
                           IF a = "btc" THEN "coingecko" ELSE "yfinance"],
   ASSET_WEIGHTS    |-> [a \in (IF w_spy = None THEN {} ELSE {"spy"}) \cup {"qqq", "btc"} |->
                           IF a = "spy" THEN w_spy
                           ELSE IF a = "qqq" THEN w_qqq ELSE w_btc],
   CATEGORIES       |-> IF with_gold THEN <<"equities", "crypto", "gold">>
                        ELSE <<"equities", "crypto">>,
   CATEGORY_WEIGHTS |-> [c \in {"equities", "crypto"} \cup (IF with_gold THEN {"gold"} ELSE {}) |->
                           IF c = "equities" THEN w_equities
                           ELSE IF c = "crypto" THEN w_crypto ELSE Rat(10, 100)],
   POLYMARKET_MARKETS |-> ShippedConfig.POLYMARKET_MARKETS,
   overall_sentiment_weight |-> ShippedConfig.overall_sentiment_weight,
   max_adjustment_points    |-> ShippedConfig.max_adjustment_points]

AggConfigs ==
  { AggConfig(w_spy, w_qqq, w_btc, w_equities, w_crypto, with_gold) :
      w_spy \in {None, R(0), R(1)}, w_qqq \in {R(0), R(3)}, w_btc \in {R(0), Rat(3, 2)},
      w_equities \in {R(0), Rat(35, 100)}, w_crypto \in {R(0), Rat(20, 100)},
      with_gold \in BOOLEAN }

\* the markets of a PolymarketSentiment as get_polymarket_sentiment returns it
AggMarkets ==
  { <<>>,
    <<PolymarketMarketSentiment("m1", "m1", R(1), R(1))>>,
    <<PolymarketMarketSentiment("m1", "m1", R(0), R(1))>>,
    <<PolymarketMarketSentiment("m1", "m1", Rat(9, 10), R(1)),
      PolymarketMarketSentiment("m2", "m2", Rat(1, 10), R(3))>> }

InitAgg ==
  /\ Fresh
  /\ api = "build_confidence_breakdown"
  /\ ret = None
  /\ agg_in \in [c : AggConfigs, scores : [{"spy", "qqq", "btc"} -> AggScores],
                 markets : AggMarkets]
  /\ agg_out = None

\* the asset_confidences of step 1 with the drawn scores
agg_asset_confidences ==
  [aid \in DOMAIN agg_in.scores |->
     AssetConfidence(agg_in.scores[aid],
                     Indicators(Rat(1, 2), Rat(1, 2), Rat(1, 2)), R(0))]

Aggregate ==
  /\ agg_out = None
  /\ agg_out' = assemble_breakdown(agg_in.c,
                  aggregate_categories(agg_in.c, agg_asset_confidences),
                  agg_in.markets)
  /\ UNCHANGED <<now, nticks, store, CACHE, last_set, proc, running, api, ret, agg_in>>

NextAgg == Aggregate

SpecAgg == InitAgg /\ [][NextAgg]_vars

(***************************************************************************)
(* SpecSentiment: get_polymarket_sentiment on a cold cache, followed by    *)
(* step 3 and the adjustment of build_confidence_breakdown, for drawn      *)
(* market configurations and provider payloads.                            *)
(***************************************************************************)
SentimentMarketIds == <<"recession_2025", "major_crash">>
SentimentImpacts == {Rat(-1, 2), R(0), R(1), R(3)}
SentimentDirections == {"positive", "negative"}

\* what the provider may answer for one market: no outcomePrices, an empty
\* list, a JSON string that does not parse to floats, a value that is neither
\* list nor str, and prices on the 0-1 and on the 0-100 scale
SentimentPayloads ==
  { [outcomePrices |-> None],
    [outcomePrices |-> [kind |-> "list", tokens |-> <<>>]],
    [outcomePrices |-> [kind |-> "json", tokens |-> <<BadToken, Rat(1, 2)>>]],
    [outcomePrices |-> [kind |-> "other", tokens |-> <<>>]],
    [outcomePrices |-> [kind |-> "list", tokens |-> <<Rat(9, 10), Rat(1, 10)>>]],
    [outcomePrices |-> [kind |-> "json", tokens |-> <<Rat(1, 10), Rat(9, 10)>>]],
    [outcomePrices |-> [kind |-> "csv", tokens |-> <<R(90), R(10)>>]] }

\* the loop of get_polymarket_sentiment over the configured markets
RECURSIVE sentiment_loop(_, _, _)
sentiment_loop(configs, payloads, acc) ==
  IF configs = <<>> THEN acc
  ELSE sentiment_loop(Tail(configs), Tail(payloads),
         sentiment_loop_body(acc, fetch_polymarket_market(Head(configs), Head(payloads))))

\* get_polymarket_sentiment on a cache miss, each market answered by its payload
get_polymarket_sentiment(configs, payloads) ==
  sentiment_result(sentiment_loop(configs, payloads, <<<<>>, R(0), R(0)>>))

\* the sentiment part of build_confidence_breakdown: what
\* get_polymarket_sentiment returned, the PolymarketSentiment of the
\* breakdown, and the adjustment of the overall score
breakdown_sentiment(c, configs, payloads) ==
  LET result == get_polymarket_sentiment(configs, payloads)
      polymarket_sentiment == engine_sentiment(result.markets)
  IN  [result |-> result,
       polymarket_sentiment |-> polymarket_sentiment,
       adjustment |-> sentiment_adjustment(c, polymarket_sentiment.aggregate_sentiment_score)]

InitSentiment ==
  /\ Fresh
  /\ api = "get_polymarket_sentiment"
  /\ ret = None
  /\ agg_in \in [configs : {<<PolymarketMarketConfig(SentimentMarketIds[1], "m1", d1, w1),
                              PolymarketMarketConfig(SentimentMarketIds[2], "m2", d2, w2)>> :
                              d1 \in SentimentDirections, d2 \in SentimentDirections,
                              w1 \in SentimentImpacts, w2 \in SentimentImpacts},
                 payloads : {<<p1, p2>> : p1 \in SentimentPayloads, p2 \in SentimentPayloads}]
  /\ agg_out = None

Sentiment ==
  /\ agg_out = None
  /\ agg_out' = breakdown_sentiment(Config, agg_in.configs, agg_in.payloads)
  /\ UNCHANGED <<now, nticks, store, CACHE, last_set, proc, running, api, ret, agg_in>>

NextSentiment == Sentiment

SpecSentiment == InitSentiment /\ [][NextSentiment]_vars

(***************************************************************************)
(* SpecNorm: the normalizers of utils/normalize.py as pure functions, each *)
(* called once with a drawn value and a drawn bound pair min <= max.       *)
(***************************************************************************)
NormValues ==
  {R(-1), Rat(-1, 5), R(0), Rat(1, 20), Rat(1, 2), Rat(9, 10), R(1),
   Rat(11, 10), Rat(3, 2), R(2), R(150)}

NormBounds ==
  {Rat(-1, 5), R(0), Rat(1, 20), Rat(1, 5), Rat(2, 5), Rat(9, 10), R(1), Rat(11, 10)}

InitNorm ==
  /\ Fresh
  /\ api = "normalize"
  /\ ret = None
  /\ agg_in \in {a \in [value : NormValues, min : NormBounds, max : NormBounds,
                         invert : BOOLEAN] : RLe(a.min, a.max)}
  /\ agg_out = None

Normalize ==
  /\ agg_out = None
  /\ agg_out' =
       [momentum |-> normalize_momentum(agg_in.value, agg_in.min, agg_in.max),
        trend |-> normalize_trend(agg_in.value, agg_in.min, agg_in.max),
        volatility |-> normalize_volatility(agg_in.value, agg_in.min, agg_in.max,
                                            agg_in.invert),
        probability |-> normalize_polymarket_probability(agg_in.value),
        percentage |-> to_percentage(agg_in.value),
        score |-> normalize_to_score(agg_in.value, agg_in.min, agg_in.max)]
  /\ UNCHANGED <<now, nticks, store, CACHE, last_set, proc, running, api, ret, agg_in>>

NextNorm == Normalize

SpecNorm == InitNorm /\ [][NextNorm]_vars

(***************************************************************************)
(* SpecInd: compute_indicators as a pure function of a drawn series of at  *)
(* most MaxLen points, in the ascending order get_historical_series        *)
(* returns.                                                                *)
(***************************************************************************)
MaxLen == 4

IndPrices == {0, 5, 6}

IndSeries ==
  UNION { { [i \in 1..n |-> MarketDataPoint(i, f[i])] : f \in [1..n -> IndPrices] }
          : n \in 0..MaxLen }

InitInd ==
  /\ Fresh
  /\ api = "compute_indicators"
  /\ ret = None
  /\ agg_in \in [series : IndSeries]
  /\ agg_out = None

\* agg_out holds the returned value in a record, None included
ComputeIndicators ==
  /\ agg_out = None
  /\ agg_out' = [indicators |-> compute_indicators(agg_in.series)]
  /\ UNCHANGED <<now, nticks, store, CACHE, last_set, proc, running, api, ret, agg_in>>

NextInd == ComputeIndicators

SpecInd == InitInd /\ [][NextInd]_vars

(***************************************************************************)
(* SpecAssets: steps 1-5 of build_confidence_breakdown as a function of    *)
(* the series get_historical_series returned for each asset and of the     *)
(* markets get_polymarket_sentiment returned, for three assets in two      *)
(* categories.                                                             *)
(***************************************************************************)
AssetsConfig == AggConfig(R(1), R(3), Rat(3, 2), Rat(35, 100), Rat(20, 100), FALSE)

AssetsSeries ==
  { <<>>,
    <<MarketDataPoint(1, 5)>>,
    <<MarketDataPoint(1, 5), MarketDataPoint(2, 6)>>,
    <<MarketDataPoint(1, 6), MarketDataPoint(2, 5)>> }

AssetsMarkets ==
  { <<>>, <<PolymarketMarketSentiment("m1", "m1", Rat(9, 10), R(1))>> }

\* step 1: the asset loop, given the series of every asset
asset_loop(c, series) == [aid \in AssetIds(c) |-> asset_confidence(series[aid])]

breakdown_of_series(c, series, markets) ==
  assemble_breakdown(c, aggregate_categories(c, asset_loop(c, series)), markets)

InitAssets ==
  /\ Fresh
  /\ api = "build_confidence_breakdown"
  /\ ret = None
  /\ agg_in \in [series : [AssetIds(AssetsConfig) -> AssetsSeries],
                 markets : AssetsMarkets]
  /\ agg_out = None

BreakdownOfSeries ==
  /\ agg_out = None
  /\ agg_out' = breakdown_of_series(AssetsConfig, agg_in.series, agg_in.markets)
  /\ UNCHANGED <<now, nticks, store, CACHE, last_set, proc, running, api, ret, agg_in>>

NextAssets == BreakdownOfSeries

SpecAssets == InitAssets /\ [][NextAssets]_vars

(***************************************************************************)
(* SpecScore: _compute_asset_score as a pure function of drawn indicators, *)
(* in quarters; values outside [0,1] are drawn as well.                    *)
(***************************************************************************)
ScoreQuarters == {-4, 0, 1, 2, 3, 4, 8}

InitScore ==
  /\ Fresh
  /\ api = "_compute_asset_score"
  /\ ret = None
  /\ agg_in \in {Indicators(Rat(m, 4), Rat(t, 4), Rat(v, 4)) :
                   m \in ScoreQuarters, t \in ScoreQuarters, v \in ScoreQuarters}
  /\ agg_out = None

ComputeAssetScore ==
  /\ agg_out = None
  /\ agg_out' = [score |-> compute_asset_score(agg_in)]
  /\ UNCHANGED <<now, nticks, store, CACHE, last_set, proc, running, api, ret, agg_in>>

NextScore == ComputeAssetScore

SpecScore == InitScore /\ [][NextScore]_vars

(***************************************************************************)
(* SpecOrder: steps 2 and 4 of build_confidence_breakdown with the         *)
(* rounding of float arithmetic.  A float has a significand of FloatBits   *)
(* bits (53 in CPython); every operation rounds its exact result to the    *)
(* nearest float, ties to even.  The asset scores are the same floats for  *)
(* every order of ASSETS; no market is quoted, so the adjustment is 0.     *)
(***************************************************************************)
FloatBits == 5

round_half_even(x) ==
  LET f == x[1] \div x[2]
      twice_rest == 2 * (x[1] - f * x[2])
  IN  IF twice_rest > x[2] THEN f + 1
      ELSE IF twice_rest = x[2] /\ f % 2 = 1 THEN f + 1
      ELSE f

\* the float nearest to a positive number
RECURSIVE float_positive(_)
float_positive(x) ==
  IF RLt(x, R(2 ^ (FloatBits - 1))) THEN RDiv(float_positive(RMul(x, R(2))), R(2))
  ELSE IF RLe(R(2 ^ FloatBits), x) THEN RMul(float_positive(RDiv(x, R(2))), R(2))
  ELSE R(round_half_even(x))

float(x) ==
  IF RIsZero(x) THEN x
  ELSE IF x[1] < 0 THEN RSub(R(0), float_positive(RSub(R(0), x)))
  ELSE float_positive(x)

\* _weighted_average on floats
RECURSIVE float_weighted_average_loop(_, _, _, _)
float_weighted_average_loop(keys, scores, weights, acc) ==
  IF keys = <<>> THEN acc
  ELSE LET key == Head(keys)
           w == IF key \in DOMAIN weights THEN float(weights[key]) ELSE R(1)
       IN  float_weighted_average_loop(Tail(keys), scores, weights,
             <<float(RAdd(acc[1], float(RMul(scores[key], w)))),
               float(RAdd(acc[2], w))>>)

float_weighted_average(keys, scores, weights) ==
  LET acc == float_weighted_average_loop(keys, scores, weights, <<R(0), R(0)>>)
  IN  IF RIsZero(acc[2]) THEN R(0) ELSE float(RDiv(acc[1], acc[2]))

OrderAssets == <<"spy", "qqq", "xlk", "btc">>

\* the tables of the four assets, ASSETS in the given order
OrderConfig(order) ==
  [ASSETS           |-> order,
   category         |-> [a \in {"spy", "qqq", "xlk", "btc"} |->
                           IF a = "btc" THEN "crypto" ELSE "equities"],
   ASSET_WEIGHTS    |-> [a \in {"spy", "qqq", "xlk", "btc"} |->
                           IF a = "btc" THEN Rat(3, 2) ELSE R(1)],
   CATEGORIES       |-> <<"equities", "crypto">>,
   CATEGORY_WEIGHTS |-> [c \in {"equities", "crypto"} |->
                           IF c = "equities" THEN Rat(35, 100) ELSE Rat(20, 100)]]

\* category scores and the overall score, from the asset scores
float_scores(c, scores) ==
  LET cta == CATEGORY_TO_ASSETS(c)
      categories == [cat \in DOMAIN cta |->
                       float_weighted_average(cta[cat], scores, c.ASSET_WEIGHTS)]
      cats == {c.CATEGORIES[i] : i \in 1..Len(c.CATEGORIES)}
      cat_score_map == [cat \in cats |->
                          IF cat \in DOMAIN categories THEN categories[cat] ELSE R(50)]
      base == float_weighted_average(c.CATEGORIES, cat_score_map, c.CATEGORY_WEIGHTS)
  IN  [categories |-> categories, overall |-> PyMax(R(0), PyMin(R(100), base))]

OrderScores == {R(40), R(45), R(50), R(55)}

OrderPermutations ==
  {order \in [1..Len(OrderAssets) -> AssetIds([ASSETS |-> OrderAssets])] :
     \A i, j \in 1..Len(OrderAssets) : order[i] = order[j] => i = j}

InitOrder ==
  /\ Fresh
  /\ api = "build_confidence_breakdown"
  /\ ret = None
  /\ agg_in \in [order : OrderPermutations,
                 scores : [AssetIds([ASSETS |-> OrderAssets]) -> OrderScores]]
  /\ agg_out = None

\* the same asset scores aggregated with ASSETS as configured and with ASSETS
\* in the drawn order
AggregateInOrder ==
  /\ agg_out = None
  /\ agg_out' =
       LET scores == [a \in DOMAIN agg_in.scores |-> float(agg_in.scores[a])]
       IN  [configured |-> float_scores(OrderConfig(OrderAssets), scores),
            permuted |-> float_scores(OrderConfig(agg_in.order), scores)]
  /\ UNCHANGED <<now, nticks, store, CACHE, last_set, proc, running, api, ret, agg_in>>

NextOrder == AggregateInOrder

SpecOrder == InitOrder /\ [][NextOrder]_vars

(***************************************************************************)
(* Properties of the service (Spec).  last_set[key] is the time, the TTL   *)
(* and the value of the latest set of key.                                 *)
(***************************************************************************)
\* C1: a failed prediction-market fetch does not abort
\* build_confidence_breakdown: no request ends with the HTTPError of a market
\* fetch.
C1_MarketFailureTolerated ==
  \A p \in Procs : proc[p].pc = "failed" => proc[p].err # "HTTPError:market"

\* C2: a failed price-history fetch does not reach the caller of
\* build_confidence_breakdown: no request ends with the HTTPError of a history
\* fetch.
C2_HistoryFailureTolerated ==
  \A p \in Procs : proc[p].pc = "failed" => proc[p].err # "HTTPError:history"

served_from_cache(loc, value) ==
  loc.pc = "done" /\ loc.cached /\ loc.fetches = 0 /\ loc.result = value

\* C3 as stated: a call made within 30 seconds of the previous call with the
\* same lookbackDays returns the same breakdown, from the cache, without a
\* fetch.
C3_TwoCallsWithin30s ==
  [][\A p \in Procs :
       (/\ StartBreakdown(p)
        /\ proc[p].pc = "done"
        /\ proc[p].lookback_days = proc'[p].lookback_days
        /\ now - proc[p].started <= 30)
       => served_from_cache(proc'[p], proc[p].result)]_vars

\* C3: a call that starts at most 30 seconds after a breakdown for the same
\* lookbackDays was stored returns that stored breakdown, from the cache,
\* without any price-history or prediction-market fetch.
C3_StoredBreakdownServed ==
  [][\A p \in Procs :
       StartBreakdown(p) =>
         LET key == breakdown_key(proc'[p].lookback_days)
         IN  (last_set[key] # None /\ now - last_set[key].at <= 30)
               => served_from_cache(proc'[p], last_set[key].value)]_vars

\* a call served from the cache 30 seconds after the breakdown was stored
C3_Witness ==
  \E p \in Procs :
    LET key == breakdown_key(proc[p].lookback_days)
    IN  /\ proc[p].op = "breakdown"
        /\ proc[p].pc = "done"
        /\ proc[p].cached
        /\ last_set[key] # None
        /\ proc[p].started = last_set[key].at + 30
        /\ proc[p].result = last_set[key].value

\* key was set less than ttl seconds ago / more than ttl seconds ago or never
Within(key, ttl) == last_set[key] # None /\ now - last_set[key].at < ttl
Past(key, ttl) == last_set[key] = None \/ now - last_set[key].at > ttl

\* the asset loop ran in this step of request p: from its first asset when
\* the request started, from the asset after the fetched one otherwise
AssetLoopStep(p) ==
  \/ StartBreakdown(p) /\ ~proc'[p].cached
  \/ YfinanceHistoryReturns(p)
  \/ CoingeckoHistoryReturns(p)

first_looked_up(p) == IF proc[p].pc \in {"yf_history", "cg_history"} THEN proc[p].i + 1 ELSE 1

\* the asset whose series the loop had to fetch, one past the last if none
first_missed(p) ==
  IF proc'[p].pc \in {"yf_history", "cg_history"} THEN proc'[p].i
  ELSE Len(Config.ASSETS) + 1

\* C5: a breakdown is served until 30 seconds after it was stored and not
\* after that; a price series, a latest price and the prediction-market
\* sentiment until 60 seconds after they were stored and not after that.
C5_EntriesLiveForTheirTTL ==
  [][\A p \in Procs :
       /\ StartBreakdown(p) =>
            LET key == breakdown_key(proc'[p].lookback_days)
            IN  /\ Within(key, 30) => served_from_cache(proc'[p], last_set[key].value)
                /\ Past(key, 30) => ~proc'[p].cached
       /\ StartLatestPrice(p) =>
            LET key == latest_price_key(proc'[p].asset)
            IN  /\ Within(key, 60) => served_from_cache(proc'[p], last_set[key].value)
                /\ Past(key, 60) => ~proc'[p].cached
       /\ AssetLoopStep(p) =>
            /\ \A k \in first_looked_up(p)..Len(Config.ASSETS) :
                 LET key == history_key(Config.ASSETS[k], proc'[p].lookback_days)
                 IN  /\ (Within(key, 60) /\ k <= first_missed(p)) => k < first_missed(p)
                     /\ Past(key, 60) => k >= first_missed(p)
            /\ first_missed(p) > Len(Config.ASSETS) =>
                 /\ Within(POLYMARKET_CACHE_KEY, 60) =>
                      /\ proc'[p].pc = "done"
                      /\ proc'[p].result.polymarket_sentiment.markets
                           = last_set[POLYMARKET_CACHE_KEY].value.markets
                 /\ Past(POLYMARKET_CACHE_KEY, 60) => proc'[p].pc = "market"]_vars

\* a breakdown recomputed 60 seconds after the series and the sentiment were
\* stored: the breakdown of then has expired, they are still served
C5_Witness ==
  \E p \in Procs :
    /\ proc[p].op = "breakdown"
    /\ proc[p].pc = "done"
    /\ ~proc[p].cached
    /\ proc[p].fetches = 0
    /\ proc[p].started = now
    /\ last_set[POLYMARKET_CACHE_KEY] # None
    /\ now = last_set[POLYMARKET_CACHE_KEY].at + 60
    /\ \A a \in AssetIds(Config) :
         /\ last_set[history_key(a, proc[p].lookback_days)] # None
         /\ now = last_set[history_key(a, proc[p].lookback_days)].at + 60

(***************************************************************************)
(* Properties of the two stores (SpecCache).                               *)
(***************************************************************************)
\* what a get of key at time now owes to the latest set of key: the value
\* before the TTL has elapsed, None and the removal after it has, None when
\* the key was never set or the store was cleared since
GetContract(key, before, after, missing) ==
  /\ (last_set[key] # None /\ now < last_set[key].at + last_set[key].ttl) =>
       ret'.value = last_set[key].value /\ after = before
  /\ (last_set[key] # None /\ now > last_set[key].at + last_set[key].ttl) =>
       ret'.value = None /\ after[key] = missing
  /\ last_set[key] = None => ret'.value = None /\ after[key] = missing

\* C4: in both stores, after set(key, v, ttl) a get(key) before the TTL has
\* elapsed returns v, a get(key) after it has elapsed returns None and
\* removes the entry, and an entry disappears only in a get of its key or in
\* a clear of its store.
C4_GetSetExpiry ==
  [][/\ \A key \in DOMAIN store :
          /\ SimpleCacheGet(key) => GetContract(key, store, store', Absent)
          /\ (store[key] # Absent /\ store'[key] = Absent) =>
               SimpleCacheGet(key) \/ SimpleCacheClear
     /\ \A key \in DOMAIN CACHE :
          /\ ModuleCacheGet(key) => GetContract(key, CACHE, CACHE', NoEntry)
          /\ (CACHE[key] # NoEntry /\ CACHE'[key] = NoEntry) =>
               ModuleCacheGet(key) \/ ModuleCacheClear]_vars

\* a get after the TTL of the latest set has elapsed returned None, and the
\* entry is gone
C4_Witness ==
  /\ ret # None
  /\ ret.value = None
  /\ last_set[ret.key] # None
  /\ now > last_set[ret.key].at + last_set[ret.key].ttl
  /\ \A key \in DOMAIN store : key = ret.key => store[key] = Absent
  /\ \A key \in DOMAIN CACHE : key = ret.key => CACHE[key] = NoEntry

\* C6: there is one store: after a clear() no key has an entry, the
\* prediction-market sentiment included.
C6_ClearEmptiesEveryKey ==
  [][(SimpleCacheClear \/ ModuleCacheClear) =>
       /\ \A key \in DOMAIN store : store'[key] = Absent
       /\ \A key \in DOMAIN CACHE : CACHE'[key] = NoEntry]_vars

(***************************************************************************)
(* Properties of the aggregation (SpecAgg).  The sums are taken over sets, *)
(* independently of the loop of _weighted_average.                         *)
(***************************************************************************)
RECURSIVE RSum(_, _)
RSum(f, S) ==
  IF S = {} THEN R(0)
  ELSE LET x == CHOOSE y \in S : TRUE IN RAdd(f[x], RSum(f, S \ {x}))

agg_done == agg_out # None

agg_members(cat) == {aid \in DOMAIN agg_in.scores : agg_in.c.category[aid] = cat}

agg_asset_weight(aid) ==
  IF aid \in DOMAIN agg_in.c.ASSET_WEIGHTS THEN agg_in.c.ASSET_WEIGHTS[aid] ELSE R(1)

agg_asset_total(cat) ==
  RSum([aid \in agg_members(cat) |-> agg_asset_weight(aid)], agg_members(cat))

agg_asset_sum(cat) ==
  RSum([aid \in agg_members(cat) |-> RMul(agg_in.scores[aid], agg_asset_weight(aid))],
       agg_members(cat))

agg_categories == DOMAIN agg_in.c.CATEGORY_WEIGHTS

\* the score a category contributes to the base: 50 for one without members
agg_category_score(cat) ==
  IF cat \in DOMAIN agg_out.categories THEN agg_out.categories[cat].score ELSE R(50)

agg_category_total == RSum(agg_in.c.CATEGORY_WEIGHTS, agg_categories)

agg_base ==
  RDiv(RSum([cat \in agg_categories |->
               RMul(agg_category_score(cat), agg_in.c.CATEGORY_WEIGHTS[cat])],
            agg_categories),
       agg_category_total)

agg_sentiment_score == agg_out.polymarket_sentiment.aggregate_sentiment_score

\* ((sentimentScore - 50) / 50) * maxAdjustmentPoints * sentimentWeight, defaults
agg_adjustment ==
  RMul(RMul(RDiv(RSub(agg_sentiment_score, R(50)), R(50)), R(10)), Rat(15, 100))

clamp(x, lo, hi) == IF RLt(x, lo) THEN lo ELSE IF RLt(hi, x) THEN hi ELSE x

\* C7: every breakdown the aggregation produces has 0 <= overall <= 100,
\* whatever the asset scores, the weight tables and the sentiment score.
C7_OverallInRange ==
  agg_done => RLe(R(0), agg_out.overall) /\ RLe(agg_out.overall, R(100))

\* the clamp acted: base + adjustment is below 0 and overall is 0
C7_Witness ==
  /\ agg_done
  /\ ~RIsZero(agg_category_total)
  /\ RLt(RAdd(agg_base, agg_adjustment), R(0))
  /\ agg_out.overall = R(0)

\* C8: overall = clamp(base + ((sentimentScore - 50) / 50) * 10 * 0.15, 0, 100)
\* with base the category-weight-weighted mean of the category scores, and
\* the adjustment is at most 1.5 points in either direction.
C8_OverallFormula ==
  agg_done =>
    /\ RLe(Rat(-3, 2), agg_adjustment) /\ RLe(agg_adjustment, Rat(3, 2))
    /\ ~RIsZero(agg_category_total) =>
         /\ agg_out.overall = clamp(RAdd(agg_base, agg_adjustment), R(0), R(100))
         /\ RLe(RSub(agg_base, Rat(3, 2)), agg_out.overall)
         /\ RLe(agg_out.overall, RAdd(agg_base, Rat(3, 2)))

\* base 50 and sentiment score 100 give 51.5
C8_Witness ==
  /\ agg_done
  /\ ~RIsZero(agg_category_total)
  /\ agg_base = R(50)
  /\ agg_sentiment_score = R(100)
  /\ agg_out.overall = Rat(103, 2)

\* C9: a category's score is sum(score_i * w_i) / sum(w_i) over its member
\* assets, an asset without a configured weight counting with weight 1.0.
C9_CategoryWeightedMean ==
  agg_done =>
    \A cat \in DOMAIN agg_out.categories :
      ~RIsZero(agg_asset_total(cat)) =>
        agg_out.categories[cat].score = RDiv(agg_asset_sum(cat), agg_asset_total(cat))

\* weights 1.0 (spy, not configured) and 3.0, scores 40 and 60, give 55
C9_Witness ==
  /\ agg_done
  /\ "spy" \notin DOMAIN agg_in.c.ASSET_WEIGHTS
  /\ agg_in.c.ASSET_WEIGHTS["qqq"] = R(3)
  /\ agg_in.scores["spy"] = R(40)
  /\ agg_in.scores["qqq"] = R(60)
  /\ agg_out.categories["equities"].score = R(55)

\* C10: an aggregation whose total weight is zero yields the neutral 50: a
\* category whose member assets all have weight 0 scores 50, and when all
\* category weights are 0 the base of the overall score is 50.
C10_ZeroWeightNeutral ==
  agg_done =>
    /\ \A cat \in DOMAIN agg_out.categories :
         RIsZero(agg_asset_total(cat)) => agg_out.categories[cat].score = R(50)
    /\ RIsZero(agg_category_total) =>
         agg_out.overall = clamp(RAdd(R(50), agg_adjustment), R(0), R(100))

(***************************************************************************)
(* Properties of the sentiment aggregation (SpecSentiment).                *)
(***************************************************************************)
sent_done == agg_out # None

sent_markets == 1..Len(agg_in.configs)

\* the payload yields no price: no outcomePrices, neither list nor string,
\* no token, or a token that is no number
sent_unreadable(i) ==
  LET raw == agg_in.payloads[i].outcomePrices
  IN  \/ raw = None
      \/ raw.kind \notin {"list", "json", "csv"}
      \/ raw.tokens = <<>>
      \/ \E k \in 1..Len(raw.tokens) : raw.tokens[k] = BadToken

RemoveAt(s, i) == SubSeq(s, 1, i - 1) \o SubSeq(s, i + 1, Len(s))

\* the same request with market i not configured
sent_without(i) ==
  breakdown_sentiment(Config, RemoveAt(agg_in.configs, i), RemoveAt(agg_in.payloads, i))

sent_entries(i) ==
  {k \in 1..Len(agg_out.result.markets) :
     agg_out.result.markets[k].market_id = agg_in.configs[i].market_id}

sent_total_impact ==
  SumSeq([k \in 1..Len(agg_out.result.markets) |-> agg_out.result.markets[k].impact])

\* C11: when a market survives and the surviving markets' total impact is 0,
\* the aggregate sentiment score of the breakdown is 50 and the adjustment 0.
C11_ZeroImpactNeutral ==
  sent_done =>
    ((agg_out.result.markets # <<>> /\ RIsZero(sent_total_impact)) =>
       /\ agg_out.polymarket_sentiment.aggregate_sentiment_score = R(50)
       /\ agg_out.adjustment = R(0))

\* C12: when no configured market survives, the aggregate sentiment score is
\* 50, in the result of get_polymarket_sentiment and in the breakdown.
C12_NoMarketNeutral ==
  sent_done =>
    ((\A i \in sent_markets : sent_unreadable(i)) =>
       /\ agg_out.result.markets = <<>>
       /\ agg_out.result.aggregate_sentiment_score = R(50)
       /\ agg_out.polymarket_sentiment.aggregate_sentiment_score = R(50))

\* no market survived, for two different reasons, and both scores are 50
C12_Witness ==
  /\ sent_done
  /\ \A i \in sent_markets : sent_unreadable(i)
  /\ agg_in.payloads[1] # agg_in.payloads[2]
  /\ agg_out.result.aggregate_sentiment_score = R(50)
  /\ agg_out.polymarket_sentiment.aggregate_sentiment_score = R(50)

\* C13: a market with zero or negative impact weight leaves the aggregate
\* sentiment score of the breakdown as it is without that market.
C13_NonPositiveImpactExcluded ==
  sent_done =>
    \A i \in sent_markets :
      RLe(agg_in.configs[i].impact_weight, R(0)) =>
        agg_out.polymarket_sentiment.aggregate_sentiment_score
          = sent_without(i).polymarket_sentiment.aggregate_sentiment_score

\* C14: a market without outcomePrices, with an empty price list or with
\* prices that do not parse has no entry in markets, and the result and the
\* breakdown's sentiment are those of the request without that market.
C14_UnreadableMarketOmitted ==
  sent_done =>
    \A i \in sent_markets :
      sent_unreadable(i) =>
        /\ sent_entries(i) = {}
        /\ agg_out.result = sent_without(i).result
        /\ agg_out.polymarket_sentiment = sent_without(i).polymarket_sentiment

\* one market is unreadable, the other one is the only entry
C14_Witness ==
  /\ sent_done
  /\ sent_unreadable(1)
  /\ ~sent_unreadable(2)
  /\ Len(agg_out.result.markets) = 1
  /\ agg_out.result.markets[1].market_id = agg_in.configs[2].market_id

\* a raw probability brought to [0,1]: a value above 1 is read as a percentage
sent_normalized(x) == clamp(IF RLt(R(1), x) THEN RDiv(x, R(100)) ELSE x, R(0), R(1))

\* C15: the reported probability of a negative market is 1 minus the
\* normalized raw probability, that of a positive market the normalized raw
\* probability, and it lies in [0,1].
C15_DirectionApplied ==
  sent_done =>
    \A i \in sent_markets :
      ~sent_unreadable(i) =>
        /\ Cardinality(sent_entries(i)) = 1
        /\ \A k \in sent_entries(i) :
             LET raw == sent_normalized(agg_in.payloads[i].outcomePrices.tokens[1])
                 reported == agg_out.result.markets[k].probability
             IN  /\ agg_in.configs[i].direction = "negative" => reported = RSub(R(1), raw)
                 /\ agg_in.configs[i].direction = "positive" => reported = raw
                 /\ RLe(R(0), reported) /\ RLe(reported, R(1))

\* a negative market with raw probability 0.9 is reported with 0.1
C15_Witness ==
  /\ sent_done
  /\ agg_in.configs[1].direction = "negative"
  /\ ~sent_unreadable(1)
  /\ agg_in.payloads[1].outcomePrices.tokens[1] = Rat(9, 10)
  /\ agg_out.result.markets[1].probability = Rat(1, 10)

(***************************************************************************)
(* Properties of the normalizers (SpecNorm).                               *)
(***************************************************************************)
norm_done == agg_out # None

\* the call returned the number x (and did not raise)
norm_returned(result, x) == result # ZeroDivisionError /\ result = x

norm_in_range(result, lo, hi) ==
  result # ZeroDivisionError /\ RLe(lo, result) /\ RLe(result, hi)

\* C16: normalize_polymarket_probability(150) and
\* normalize_polymarket_probability(1.5) both return 1.0.
C16_PercentScaleClamped ==
  norm_done =>
    (agg_in.value \in {R(150), Rat(3, 2)} => agg_out.probability = R(1))

\* C17: with min < max every normalizer returns a value in [0,1] and
\* to_percentage one in [0,100]; a value at or below min gives 0, a value at
\* or above max gives 1, the other way round for inverted volatility.
C17_NormalizersBounded ==
  norm_done =>
    /\ norm_in_range(agg_out.probability, R(0), R(1))
    /\ norm_in_range(agg_out.percentage, R(0), R(100))
    /\ RLt(agg_in.min, agg_in.max) =>
         LET low == IF agg_in.invert THEN R(1) ELSE R(0)
             high == IF agg_in.invert THEN R(0) ELSE R(1)
         IN  /\ norm_in_range(agg_out.momentum, R(0), R(1))
             /\ norm_in_range(agg_out.trend, R(0), R(1))
             /\ norm_in_range(agg_out.volatility, R(0), R(1))
             /\ RLe(agg_in.value, agg_in.min) =>
                  /\ norm_returned(agg_out.momentum, R(0))
                  /\ norm_returned(agg_out.trend, R(0))
                  /\ norm_returned(agg_out.volatility, low)
             /\ RLe(agg_in.max, agg_in.value) =>
                  /\ norm_returned(agg_out.momentum, R(1))
                  /\ norm_returned(agg_out.trend, R(1))
                  /\ norm_returned(agg_out.volatility, high)

\* a value above max with inverted volatility: momentum 1, volatility 0
C17_Witness ==
  /\ norm_done
  /\ RLt(agg_in.min, agg_in.max)
  /\ RLt(agg_in.max, agg_in.value)
  /\ agg_in.invert
  /\ norm_returned(agg_out.momentum, R(1))
  /\ norm_returned(agg_out.volatility, R(0))

\* C18: with min = max a normalizer returns exactly 0.5 for any value and
\* does not divide by zero.
C18_DegenerateBoundsNeutral ==
  norm_done =>
    (agg_in.min = agg_in.max =>
       /\ norm_returned(agg_out.momentum, Rat(1, 2))
       /\ norm_returned(agg_out.trend, Rat(1, 2))
       /\ norm_returned(agg_out.volatility, Rat(1, 2)))

(***************************************************************************)
(* Properties of the indicators (SpecInd).                                 *)
(***************************************************************************)
ind_done == agg_out # None

ind_length == Len(agg_in.series)

ind_flat == \A i \in 1..ind_length : agg_in.series[i].price = agg_in.series[1].price

ind_has_zero == \E i \in 1..ind_length : RIsZero(agg_in.series[i].price)

\* C19: compute_indicators returns None for a series of length 0 or 1, and
\* for a series of length >= 2, zero prices included, indicators whose
\* momentum, trend and volatility lie in [0,1].
C19_IndicatorsBounded ==
  ind_done =>
    /\ ind_length < 2 => agg_out.indicators = None
    /\ ind_length >= 2 =>
         /\ agg_out.indicators # None
         /\ norm_in_range(agg_out.indicators.momentum, R(0), R(1))
         /\ norm_in_range(agg_out.indicators.trend, R(0), R(1))
         /\ norm_in_range(agg_out.indicators.volatility, R(0), R(1))

\* a series with a zero price and with indicators strictly inside the range
C19_Witness ==
  /\ ind_done
  /\ ind_length >= 2
  /\ ind_has_zero
  /\ agg_out.indicators # None
  /\ RLt(R(0), agg_out.indicators.momentum) /\ RLt(agg_out.indicators.momentum, R(1))
  /\ RLt(R(0), agg_out.indicators.volatility) /\ RLt(agg_out.indicators.volatility, R(1))

\* C20: for a series of length >= 2 whose prices are all equal the momentum
\* indicator is exactly 0.5.
C20_FlatSeriesNeutralMomentum ==
  ind_done =>
    ((ind_length >= 2 /\ ind_flat) => agg_out.indicators.momentum = Rat(1, 2))

\* a flat series at a non-zero price
C20_Witness ==
  /\ ind_done
  /\ ind_length >= 2
  /\ ind_flat
  /\ ~ind_has_zero
  /\ agg_out.indicators.momentum = Rat(1, 2)

(***************************************************************************)
(* Properties of the asset loop (SpecAssets).                              *)
(***************************************************************************)
assets_done == agg_out # None

assets_ids == AssetIds(AssetsConfig)

\* the AssetConfidence the breakdown reports for an asset
assets_reported(aid) == agg_out.categories[AssetsConfig.category[aid]].assets[aid]

assets_members(cat) == {aid \in assets_ids : AssetsConfig.category[aid] = cat}

\* the blend of line 52 on the indicators of the asset's own series
assets_blend(aid) ==
  LET ind == compute_indicators(agg_in.series[aid])
  IN  RMul(R(100),
           clamp(RAdd(RAdd(RMul(Rat(1, 2), ind.momentum), RMul(Rat(3, 10), ind.trend)),
                      RMul(Rat(1, 5), ind.volatility)),
                 R(0), R(1)))

\* C21: an asset whose series has fewer than 2 points is reported with the
\* neutral AssetConfidence (score 50, indicators 0.5), and every other asset
\* and every category is computed as usual.
C21_ShortSeriesNeutral ==
  assets_done =>
    /\ \A aid \in assets_ids :
         IF Len(agg_in.series[aid]) < 2
           THEN /\ assets_reported(aid).score = R(50)
                /\ assets_reported(aid).indicators
                     = Indicators(Rat(1, 2), Rat(1, 2), Rat(1, 2))
           ELSE /\ assets_reported(aid).indicators = compute_indicators(agg_in.series[aid])
                /\ assets_reported(aid).score = assets_blend(aid)
    /\ \A cat \in DOMAIN agg_out.categories :
         LET members == assets_members(cat)
             w == [aid \in members |-> AssetsConfig.ASSET_WEIGHTS[aid]]
             sw == [aid \in members |-> RMul(assets_reported(aid).score, w[aid])]
         IN  /\ DOMAIN agg_out.categories[cat].assets = members
             /\ agg_out.categories[cat].score = RDiv(RSum(sw, members), RSum(w, members))

\* spy has one point and qqq two: spy is neutral, qqq is not, and equities
\* is their weighted mean
C21_Witness ==
  /\ assets_done
  /\ Len(agg_in.series["spy"]) = 1
  /\ Len(agg_in.series["qqq"]) = 2
  /\ assets_reported("spy").score = R(50)
  /\ assets_reported("qqq").score # R(50)
  /\ agg_out.categories["equities"].score
       = RDiv(RAdd(R(50), RMul(R(3), assets_reported("qqq").score)), R(4))

(***************************************************************************)
(* Further properties of the service (Spec).                               *)
(***************************************************************************)
\* a provider request of the computation of request p is outstanding
fetch_pending(p) == proc[p].pc \in {"yf_history", "cg_history", "market"}

\* C22: within one computation no category score and no overall score
\* exists before every price-history fetch and the prediction-market fetch
\* of that computation have completed.
C22_ScoresAfterAllFetches ==
  \A p \in Procs :
    fetch_pending(p) =>
      /\ proc[p].category_confidences = None
      /\ proc[p].result = None

(***************************************************************************)
(* Properties of concurrent requests (SpecConc).                           *)
(***************************************************************************)
\* a breakdown with an overall score, every category with every member asset
\* and the sentiment
complete_breakdown(b) ==
  /\ DOMAIN b = {"overall", "categories", "polymarket_sentiment"}
  /\ RLe(R(0), b.overall) /\ RLe(b.overall, R(100))
  /\ DOMAIN b.categories = {Config.category[a] : a \in AssetIds(Config)}
  /\ \A cat \in DOMAIN b.categories :
       DOMAIN b.categories[cat].assets
         = {a \in AssetIds(Config) : Config.category[a] = cat}
  /\ DOMAIN b.polymarket_sentiment = {"markets", "aggregate_sentiment_score"}

\* request p is past the cache lookup, which missed, and has not ended
computing(p) == proc[p].pc \in {"yf_history", "cg_history", "market"}

\* C23: requests for the same lookbackDays that interleave during a cache
\* miss each recompute and return a complete breakdown, and whatever is
\* stored under the key is a complete breakdown one of them returned.
C23_ConcurrentMissesRecompute ==
  [][\A p \in Procs :
       LET key == breakdown_key(proc'[p].lookback_days)
       IN  /\ (proc'[p] # proc[p] /\ proc'[p].pc = "done") =>
                complete_breakdown(proc'[p].result)
           /\ (computing(p) /\ proc'[p].pc = "done") =>
                /\ ~proc'[p].cached
                /\ store'[key] # Absent
                /\ store'[key].value = proc'[p].result
           /\ (proc'[p] # proc[p] /\ store'[key] # store[key]) =>
                /\ proc'[p].pc = "done"
                /\ ~proc'[p].cached
                /\ store'[key].value = proc'[p].result]_vars

\* two requests both missed, both fetched and returned different complete
\* breakdowns; the cache holds the one returned last
C23_Witness ==
  LET key == breakdown_key(proc[1].lookback_days)
  IN  /\ \A p \in {1, 2} :
           /\ proc[p].pc = "done"
           /\ ~proc[p].cached
           /\ proc[p].fetches > 0
           /\ complete_breakdown(proc[p].result)
      /\ proc[1].result # proc[2].result
      /\ store[key] # Absent
      /\ store[key].value = proc[2].result

(***************************************************************************)
(* Further properties of the aggregation (SpecAgg).                        *)
(***************************************************************************)
\* the categories that have member assets, and those that have only a weight
agg_populated == {agg_in.c.category[aid] : aid \in DOMAIN agg_in.scores}
agg_memberless == agg_categories \ agg_populated

\* the base with every memberless category counted at score 50
agg_base_memberless_neutral ==
  RDiv(RAdd(RSum([cat \in agg_populated |->
                    RMul(agg_out.categories[cat].score, agg_in.c.CATEGORY_WEIGHTS[cat])],
                 agg_populated),
            RSum([cat \in agg_memberless |->
                    RMul(R(50), agg_in.c.CATEGORY_WEIGHTS[cat])],
                 agg_memberless)),
       agg_category_total)

\* C24: a category with a configured weight and no member asset has no
\* entry among the categories and enters the overall weighted mean with
\* score 50.
C24_MemberlessCategoryNeutral ==
  agg_done =>
    ((agg_memberless # {} /\ ~RIsZero(agg_category_total)) =>
       /\ \A cat \in agg_memberless : cat \notin DOMAIN agg_out.categories
       /\ agg_out.overall
            = clamp(RAdd(agg_base_memberless_neutral, agg_adjustment), R(0), R(100)))

\* gold alone carries weight: all asset scores are 0 and the overall is 50
C24_Witness ==
  /\ agg_done
  /\ agg_memberless = {"gold"}
  /\ \A cat \in agg_populated : RIsZero(agg_in.c.CATEGORY_WEIGHTS[cat])
  /\ \A aid \in DOMAIN agg_in.scores : agg_in.scores[aid] = R(0)
  /\ agg_in.markets = <<>>
  /\ agg_out.overall = R(50)

(***************************************************************************)
(* Properties of the asset score (SpecScore).                              *)
(***************************************************************************)
score_done == agg_out # None

\* the number of quarters in an indicator value
quarters(x) == (4 * x[1]) \div x[2]

\* 100 * (0.5*momentum + 0.3*trend + 0.2*volatility), from the quarters
score_blend_percent ==
  Rat(50 * quarters(agg_in.momentum) + 30 * quarters(agg_in.trend)
        + 20 * quarters(agg_in.volatility), 4)

score_unit(x) == RLe(R(0), x) /\ RLe(x, R(1))

\* C25: the score is 100 * clamp(0.5*momentum + 0.3*trend + 0.2*volatility,
\* 0, 1), and it lies in [0,100] for indicators in [0,1].
C25_AssetScoreBlend ==
  score_done =>
    /\ agg_out.score = clamp(score_blend_percent, R(0), R(100))
    /\ (score_unit(agg_in.momentum) /\ score_unit(agg_in.trend)
          /\ score_unit(agg_in.volatility)) =>
         /\ agg_out.score = score_blend_percent
         /\ RLe(R(0), agg_out.score) /\ RLe(agg_out.score, R(100))

\* momentum 1, trend 0.5, volatility 0.25 give 50 + 15 + 5 = 70
C25_Witness ==
  /\ score_done
  /\ agg_in.momentum = R(1)
  /\ agg_in.trend = Rat(1, 2)
  /\ agg_in.volatility = Rat(1, 4)
  /\ agg_out.score = R(70)

(***************************************************************************)
(* Properties of the asset order (SpecOrder).                              *)
(***************************************************************************)
\* C26: for any permutation of the asset iteration order and the same asset
\* scores, the category scores and the overall score are the same.
C26_AssetOrderIrrelevant ==
  agg_out # None =>
    /\ agg_out.permuted.categories = agg_out.configured.categories
    /\ agg_out.permuted.overall = agg_out.configured.overall

(***************************************************************************)
(* Properties of a failed computation (Spec).                              *)
(***************************************************************************)
\* request p ends in this step with the error of a fetch
fails_now(p) ==
  /\ proc[p].pc \in {"cg_history", "market"}
  /\ proc'[p].pc = "failed"
  /\ proc'[p].op = "breakdown"

\* key was set while the request that started at time started was running
set_since(key, started) == last_set'[key] # None /\ last_set'[key].at >= started

\* C27: a build_confidence_breakdown that ends with the error of a fetch has
\* stored no breakdown, the failing step changes no cache entry, what the
\* call added are history entries of assets before the failing fetch, and
\* the next call for the same lookbackDays recomputes.
C27_FailureStoresNoBreakdown ==
  [][\A p \in Procs :
       /\ fails_now(p) =>
            LET key == breakdown_key(proc'[p].lookback_days)
                fetched == IF proc[p].pc = "market" THEN Len(Config.ASSETS)
                           ELSE proc[p].i - 1
            IN  /\ store' = store /\ CACHE' = CACHE /\ last_set' = last_set
                /\ store'[key] = Absent
                /\ ~set_since(key, proc'[p].started)
                /\ ~set_since(POLYMARKET_CACHE_KEY, proc'[p].started)
                /\ \A k \in 1..Len(Config.ASSETS) :
                     set_since(history_key(Config.ASSETS[k], proc'[p].lookback_days),
                               proc'[p].started)
                       => k <= fetched
       /\ (StartBreakdown(p) /\ proc[p].pc = "failed"
             /\ proc'[p].lookback_days = proc[p].lookback_days) =>
            /\ ~proc'[p].cached
            /\ proc'[p].pc \in {"yf_history", "cg_history", "market", "done"}]_vars

\* a breakdown was stored, expired, and the recomputation failed at the
\* market fetch after it had fetched and stored both histories
C27_Witness ==
  \E p \in Procs :
    LET key == breakdown_key(proc[p].lookback_days)
    IN  /\ proc[p].pc = "failed"
        /\ proc[p].op = "breakdown"
        /\ proc[p].err = "HTTPError:market"
        /\ last_set[key] # None
        /\ last_set[key].at < proc[p].started
        /\ store[key] = Absent
        /\ \A a \in AssetIds(Config) :
             /\ last_set[history_key(a, proc[p].lookback_days)] # None
             /\ last_set[history_key(a, proc[p].lookback_days)].at >= proc[p].started

(***************************************************************************)
(* Further properties of the sentiment aggregation (SpecSentiment).        *)
(***************************************************************************)
\* C28: the aggregate sentiment score that build_confidence_breakdown
\* recomputes equals the one get_polymarket_sentiment computed for the same
\* markets.
C28_SentimentAggregatesAgree ==
  sent_done =>
    agg_out.polymarket_sentiment.aggregate_sentiment_score
      = agg_out.result.aggregate_sentiment_score

(***************************************************************************)
(* Properties of the age of the data (SpecAge).  Requests come one after   *)
(* the other, so the series a breakdown was built from are the ones last   *)
(* stored under the history keys when it is returned: a later computation  *)
(* either stores a new breakdown or ends with an error after the lookup    *)
(* has deleted the expired one.                                            *)
(***************************************************************************)
\* request p returns a breakdown in this step
returns_breakdown(p) ==
  /\ proc'[p] # proc[p]
  /\ proc'[p].pc = "done"
  /\ proc'[p].op = "breakdown"

\* the time the series of asset a was fetched
fetched_at(a, lookback_days) == last_set'[history_key(a, lookback_days)].at

history_answered(p) == YfinanceHistoryReturns(p) \/ CoingeckoHistoryReturns(p)

\* the key of the series p is fetching
fetched_key(p) == history_key(Config.ASSETS[proc[p].i], proc[p].lookback_days)

\* the empty series was stored under key at most 60 seconds ago
empty_series_cached(key) ==
  /\ last_set[key] # None
  /\ last_set[key].value = <<>>
  /\ now - last_set[key].at <= 60

\* get_latest_price ends in this step with no price from the provider
no_price_now(p) ==
  /\ proc[p].pc \in {"cg_price", "yf_price"}
  /\ proc'[p].pc = "done"
  /\ proc'[p].result = None

\* C30: get_historical_series stores what the provider answered, the empty
\* series included, and an asset loop that comes to an asset whose empty
\* series was stored at most 60 seconds ago takes the empty series and asks
\* no provider for it; get_latest_price stores nothing when the provider
\* gave no price, and the next get_latest_price for that asset asks the
\* provider again.
C30_UnavailableCachedForHistoryOnly ==
  [][\A p \in Procs :
       /\ history_answered(p) =>
            /\ last_set'[fetched_key(p)] # None
            /\ last_set'[fetched_key(p)].at = now
            /\ store'[fetched_key(p)]
                 = CacheItem(last_set'[fetched_key(p)].value, now + 60)
       /\ AssetLoopStep(p) =>
            \A j \in first_looked_up(p)..Len(Config.ASSETS) :
              empty_series_cached(history_key(Config.ASSETS[j], proc'[p].lookback_days))
                => /\ first_missed(p) # j
                   /\ (j < first_missed(p) /\ proc'[p].pc # "done")
                        => proc'[p].asset_confidences[j] = asset_confidence(<<>>)
       /\ no_price_now(p) => store' = store /\ last_set' = last_set
       /\ (/\ StartLatestPrice(p)
           /\ proc[p].pc = "done"
           /\ proc[p].op = "latest_price"
           /\ proc[p].result = None
           /\ proc'[p].asset = proc[p].asset)
          => /\ proc'[p].pc \in {"cg_price", "yf_price"}
             /\ proc'[p].fetches = 1]_vars

\* the sentiment was stored after an empty series of some asset, a breakdown
\* was computed later without a fetch, and then a get_latest_price found no
\* entry, got no price and stored none
C30_Witness ==
  \E p \in Procs : \E a \in AssetIds(Config) : \E d \in LookbackDays :
    /\ last_set[history_key(a, d)] # None
    /\ last_set[history_key(a, d)].value = <<>>
    /\ last_set[POLYMARKET_CACHE_KEY] # None
    /\ last_set[breakdown_key(d)] # None
    /\ \A b \in AssetIds(Config) :
         /\ last_set[history_key(b, d)] # None
         /\ last_set[history_key(b, d)].at < last_set[POLYMARKET_CACHE_KEY].at
    /\ last_set[POLYMARKET_CACHE_KEY].at < last_set[breakdown_key(d)].at
    /\ proc[p].pc = "done"
    /\ proc[p].op = "latest_price"
    /\ proc[p].fetches = 1
    /\ proc[p].result = None
    /\ last_set[latest_price_key(proc[p].asset)] = None

=============================================================================
